---------------------------- MODULE Spec2Model ----------------------------
(***************************************************************************)
(* A model of mcp-http-bridge: the credential store (db.js), the OAuth     *)
(* lifecycle (auth.js, routes/auth.js), the MCP client (mcp-client.js)     *)
(* and the MCP transport routes (routes/mcp.js, routes/call.js).           *)
(*                                                                         *)
(* Strings that the code takes apart (state, session ids, shop ids,        *)
(* tokens) are sequences of chunks; JavaScript's falsy values "",          *)
(* undefined and null of such a string are the empty sequence.             *)
(***************************************************************************)
EXTENDS Integers, Sequences, FiniteSets, TLC

VARIABLES
    now,                    \* wall clock, in ticks
    code_verifiers,         \* table code_verifiers
    customer_tokens,        \* table customer_tokens
    customer_account_urls,  \* table customer_account_urls (its shop_id column)
    nextId,                 \* source of generateId / randomBytes values
    cbs,                    \* the /auth/callback requests, in arrival order
    accessToken,            \* MCPClient.accessToken
    shopId,                 \* MCPClient.shopId
    envToken,               \* process.env.MCP_ACCESS_TOKEN
    last,                   \* the operation that ran last, with its result
    tools,                  \* MCPClient.tools
    storefrontTools,        \* MCPClient.storefrontTools
    customerTools,          \* MCPClient.customerTools
    sfPending,              \* connectToStorefrontServer calls awaiting tools/list
    cuPending,              \* connectAll's connectToCustomerServer calls, by position
    tasks,                  \* the callTool invocations
    lastLister,             \* per tool name: the provider that listed it last
    sessions,               \* routes/mcp.js: the Map sessions
    channels,               \* per SSE response: the events written to it
    open,                   \* the SSE responses whose connection is open
    nextSession,            \* source of crypto.randomUUID values
    timers,                 \* the SSE responses whose heartbeat interval is set
    posts                   \* the POST /messages requests, in arrival order

storeVars == <<code_verifiers, customer_tokens, customer_account_urls, nextId>>
cfgVars == <<accessToken, shopId, envToken>>
catalogVars == <<tools, storefrontTools, customerTools, lastLister>>
gatewayVars == <<sessions, channels, open, nextSession, timers, posts>>
clientVars == <<tools, storefrontTools, customerTools, sfPending, cuPending, tasks,
                lastLister>>

-----------------------------------------------------------------------------
(* Bounds *)

TicksPerDay == 2
MaxTime == 2
MaxIds == 2
MaxCallbacks == 2

(* Character codes of the separators that decide the text comparisons. *)
CharT == 84
CharSpace == 32

-----------------------------------------------------------------------------
(* Values *)

NoString == <<>>

SessionIds == { <<"s1">>, <<"u", "-", "1">> }
ShopIds == { <<"shop">>, <<"shop", "-", "eu">> }
(* The access tokens the token endpoint issues, one per exchange. *)
TokenNames == << "T1", "T2", "T3", "T4", "T5" >>
IssuedToken(i) == << TokenNames[i] >>
TokenValues == { IssuedToken(i) : i \in 1..2 }
ExpiresInValues == {1, 3}
ProvidedTokens == { NoString, <<"A">> }
StaticTokens == { NoString, <<"S">> }
EnvTokens == { NoString, <<"E">> }

-----------------------------------------------------------------------------
(* Time as text.  Date.toISOString() gives "YYYY-MM-DDTHH:MM:SS.sssZ";     *)
(* SQLite's datetime('now') gives "YYYY-MM-DD HH:MM:SS".  Both are TEXT    *)
(* and SQLite compares them byte by byte: the date, then the separator,    *)
(* then the time of day.                                                   *)

toISOString(t) == << t \div TicksPerDay, CharT, t % TicksPerDay >>

datetimeNow(t) == << t \div TicksPerDay, CharSpace, t % TicksPerDay >>

RECURSIVE TextGreaterFrom(_, _, _)
TextGreaterFrom(a, b, i) ==
    IF i > Len(a) THEN FALSE
    ELSE IF i > Len(b) THEN TRUE
    ELSE IF a[i] # b[i] THEN a[i] > b[i]
    ELSE TextGreaterFrom(a, b, i + 1)

TextGreater(a, b) == TextGreaterFrom(a, b, 1)

(* new Date(text).getTime(), in ticks *)
DateParse(text) == text[1] * TicksPerDay + text[3]

-----------------------------------------------------------------------------
(* String.prototype.split('-') *)

RECURSIVE SplitFrom(_, _, _)
SplitFrom(s, i, cur) ==
    IF i > Len(s) THEN << cur >>
    ELSE IF s[i] = "-" THEN << cur >> \o SplitFrom(s, i + 1, <<>>)
    ELSE SplitFrom(s, i + 1, Append(cur, s[i]))

split(s) == SplitFrom(s, 1, <<>>)

(* const [sessionId, shopId] = state.split('-') *)
ParseState(state) ==
    LET parts == split(state)
    IN  [ sessionId |-> parts[1],
          shopId |-> IF Len(parts) >= 2 THEN parts[2] ELSE NoString ]

(* const state = `${sessionId}-${shopId}` *)
MakeState(sessionId, shop) == sessionId \o << "-" >> \o shop

States == { MakeState(s, h) : s \in SessionIds, h \in ShopIds }

-----------------------------------------------------------------------------
(* db.js *)

(* WHERE expires_at > datetime('now') *)
NotExpiredSql(row, t) == TextGreater(row.expires_at, datetimeNow(t))

Mutant_storeCodeVerifierThrows(tbl, state) == FALSE

(* storeCodeVerifier: the table after the INSERT.  The column state is     *)
(* UNIQUE: the INSERT throws when a row with that state exists.            *)
storeCodeVerifierThrows(tbl, state) == \E r \in tbl : r.state = state

VerifierLifetime == 1

storeCodeVerifier(tbl, id, state, verifier, t) ==
    tbl \cup { [ id |-> id, state |-> state, verifier |-> verifier,
                 expires_at |-> toISOString(t + VerifierLifetime) ] }

(* getCodeVerifier: the rows the SELECT matches *)
getCodeVerifierRows(tbl, state, t) ==
    { r \in tbl : r.state = state /\ NotExpiredSql(r, t) }

(* getCodeVerifier: the table after the lookup returned record *)
Mutant_getCodeVerifierDelete(tbl, record) == tbl

getCodeVerifierDelete(tbl, record) == { r \in tbl : r.id # record.id }

(* storeCustomerToken *)
Mutant_storeCustomerTokenInsert(tbl, sessionId, shop, token, expiresAt, t) ==
    tbl \cup { [ session_id |-> sessionId, shop_id |-> shop,
                 access_token |-> token,
                 expires_at |-> toISOString(expiresAt),
                 updated_at |-> t ] }

Mutant_storeCustomerToken(tbl, sessionId, shop, token, expiresAt, t) ==
    IF \E r \in tbl : r.session_id = sessionId
    THEN { IF r.session_id = sessionId
           THEN [ r EXCEPT !.access_token = token, !.updated_at = t ]
           ELSE r : r \in tbl }
    ELSE tbl \cup { [ session_id |-> sessionId, shop_id |-> shop,
                      access_token |-> token,
                      expires_at |-> toISOString(expiresAt),
                      updated_at |-> t ] }

storeCustomerToken(tbl, sessionId, shop, token, expiresAt, t) ==
    IF \E r \in tbl : r.session_id = sessionId
    THEN { IF r.session_id = sessionId
           THEN [ r EXCEPT !.access_token = token,
                           !.expires_at = toISOString(expiresAt),
                           !.updated_at = t ]
           ELSE r : r \in tbl }
    ELSE tbl \cup { [ session_id |-> sessionId, shop_id |-> shop,
                      access_token |-> token,
                      expires_at |-> toISOString(expiresAt),
                      updated_at |-> t ] }

(* getCustomerToken: the rows the SELECT matches *)
getCustomerToken(tbl, sessionId, t) ==
    { r \in tbl : r.session_id = sessionId /\ NotExpiredSql(r, t) }

(* getCustomerTokenByShop: ORDER BY updated_at DESC LIMIT 1; rows with the *)
(* same updated_at come in an order SQLite does not fix.                   *)
getCustomerTokenByShop(tbl, shop, t) ==
    LET rows == { r \in tbl : r.shop_id = shop /\ NotExpiredSql(r, t) }
    IN  { r \in rows : \A q \in rows : q.updated_at <= r.updated_at }

(* cleanupExpired: DELETE ... WHERE expires_at <= datetime('now') *)
cleanupExpired(tbl, t) == { r \in tbl : NotExpiredSql(r, t) }

-----------------------------------------------------------------------------
(* mcp-client.js: the client's catalog and its callTool invocations *)

TaskIds == { "t1" }
ToolNames == { "a", "b" }

NoError == [ message |-> << >>, code |-> 0 ]
NoOptions == [ accessToken |-> NoString, sessionId |-> NoString ]

(* A callTool invocation that has not been made. *)
IdleTask ==
    [ pc |-> "idle", name |-> "", options |-> NoOptions, ctx |-> "none",
      isRetry |-> FALSE, calls |-> 0, recoveries |-> 0, reconnected |-> FALSE,
      firstError |-> NoError, lastError |-> NoError, thrown |-> NoError,
      outcome |-> "none", route |-> "none", owner |-> "none" ]

(* routes/mcp.js at module load *)
GatewayInit ==
    /\ sessions = << >>
    /\ channels = << >>
    /\ open = {}
    /\ nextSession = 1
    /\ timers = {}
    /\ posts = << >>

(* new MCPClient(...) *)
ClientInit ==
    /\ tools = << >>
    /\ storefrontTools = << >>
    /\ customerTools = << >>
    /\ sfPending = 0
    /\ cuPending = [ pc \in { "list", "backoff", "relist" } |-> 0 ]
    /\ tasks = [ t \in TaskIds |-> IdleTask ]
    /\ lastLister = [ n \in ToolNames |-> "none" ]
    /\ GatewayInit

-----------------------------------------------------------------------------
(* auth.js, routes/auth.js: the OAuth lifecycle *)

(* generateCodeChallenge: the base64url SHA-256 digest of the verifier,    *)
(* a value that determines the verifier.                                   *)
generateCodeChallenge(verifier) == << "S256", verifier >>

(* generateAuthUrl.  The verifier is 64 random characters: a fresh value.  *)
(* last has the state and the code_challenge parameters of the URL.        *)
generateAuthUrl(sessionId, shop) ==
    LET state == MakeState(sessionId, shop)
    IN  /\ nextId <= MaxIds
        /\ customer_account_urls' = customer_account_urls \cup { shop }
        /\ IF storeCodeVerifierThrows(code_verifiers, state)
           THEN /\ UNCHANGED << code_verifiers, nextId >>
                /\ last' = [ kind |-> "generateAuthUrl", threw |-> TRUE,
                             state |-> state, verifier |-> 0,
                             code_challenge |-> generateCodeChallenge(0) ]
           ELSE /\ code_verifiers' =
                      storeCodeVerifier(code_verifiers, nextId, state, nextId, now)
                /\ nextId' = nextId + 1
                /\ last' = [ kind |-> "generateAuthUrl", threw |-> FALSE,
                             state |-> state, verifier |-> nextId,
                             code_challenge |-> generateCodeChallenge(nextId) ]
        /\ UNCHANGED << now, customer_tokens, cbs, cfgVars, clientVars,
                    gatewayVars >>

(* GET /auth/login and GET /auth/url *)
BeginAuthorization ==
    \E s \in SessionIds, h \in ShopIds : generateAuthUrl(s, h)

Mutant_TokenExchangeFailed(status, errorText) == << "Token exchange failed" >>

(* The message of the error exchangeCodeForToken throws on a response     *)
(* that is not ok: `Token exchange failed: ${response.status} ${errorText}` *)
TokenExchangeFailed(status, errorText) ==
    << "Token exchange failed: ", status, " " >> \o errorText

(* `Customer account URLs not found for shop: ${shopId}` *)
UrlsNotFound(shop) == << "Customer account URLs not found for shop: " >> \o shop

(* res.redirect(loginPageUrl): the query parameters of login.html *)
NoRedirect == [ status |-> "none", message |-> NoString ]
SuccessRedirect == [ status |-> "success", message |-> NoString ]
ErrorRedirect(message) == [ status |-> "error", message |-> message ]

(* GET /auth/callback up to the token request: the state is parsed, the    *)
(* verifier is looked up and consumed, exchangeCodeForToken looks up the   *)
(* shop's URLs and sends the request.                                      *)
Callback(state) ==
    LET parsed == ParseState(state)
        rows == getCodeVerifierRows(code_verifiers, state, now)
    IN  /\ Len(cbs) < MaxCallbacks
        /\ IF rows = {}
           THEN /\ cbs' = Append(cbs, [ state |-> state, verifier |-> 0,
                                        pc |-> "invalid_state", status |-> 400,
                                        sessionId |-> parsed.sessionId,
                                        shopId |-> parsed.shopId,
                                        thrown |-> NoString,
                                        location |-> NoRedirect ])
                /\ UNCHANGED code_verifiers
           ELSE \E record \in rows :
                /\ code_verifiers' = getCodeVerifierDelete(code_verifiers, record)
                /\ cbs' = Append(cbs,
                      [ state |-> state, verifier |-> record.verifier,
                        pc |-> IF parsed.shopId \in customer_account_urls
                               THEN "exchanging" ELSE "error",
                        status |-> IF parsed.shopId \in customer_account_urls
                                   THEN 0 ELSE 302,
                        sessionId |-> parsed.sessionId,
                        shopId |-> parsed.shopId,
                        thrown |-> IF parsed.shopId \in customer_account_urls
                                   THEN NoString ELSE UrlsNotFound(parsed.shopId),
                        location |-> IF parsed.shopId \in customer_account_urls
                                     THEN NoRedirect
                                     ELSE ErrorRedirect(UrlsNotFound(parsed.shopId)) ])
        /\ last' = [ kind |-> "other" ]
        /\ UNCHANGED << now, customer_tokens, customer_account_urls, nextId,
                        cfgVars, clientVars, gatewayVars >>

CallbackArrives == \E state \in States : Callback(state)

(* The token endpoint answers: the rest of exchangeCodeForToken and of the *)
(* callback.                                                               *)
ExchangeResponse(i, ok, token, expires_in, status, errorText) ==
    /\ i \in DOMAIN cbs
    /\ cbs[i].pc = "exchanging"
    /\ IF ok
       THEN /\ customer_tokens' =
                  storeCustomerToken(customer_tokens, cbs[i].sessionId,
                                     cbs[i].shopId, token, now + expires_in, now)
            /\ cbs' = [ cbs EXCEPT ![i].pc = "stored", ![i].status = 302,
                                   ![i].location = SuccessRedirect ]
       ELSE /\ cbs' = [ cbs EXCEPT ![i].pc = "exchange_failed",
                                   ![i].status = 302,
                                   ![i].thrown = TokenExchangeFailed(status, errorText),
                                   ![i].location =
                                       ErrorRedirect(TokenExchangeFailed(status, errorText)) ]
            /\ UNCHANGED customer_tokens
    /\ last' = [ kind |-> "other" ]
    /\ UNCHANGED << now, code_verifiers, customer_account_urls, nextId, cfgVars,
                    clientVars, gatewayVars >>

ExchangeSucceeds ==
    \E i \in DOMAIN cbs, e \in ExpiresInValues :
        ExchangeResponse(i, TRUE, IssuedToken(i), e, "200", NoString)

ExchangeFails ==
    \E i \in DOMAIN cbs :
        ExchangeResponse(i, FALSE, NoString, 0, "400", << "invalid_grant" >>)

(* Time passes. *)
Tick ==
    /\ now < MaxTime
    /\ now' = now + 1
    /\ last' = [ kind |-> "other" ]
    /\ UNCHANGED << storeVars, cbs, cfgVars, clientVars, gatewayVars >>

(* setInterval(cleanupExpired, 60 * 60 * 1000) *)
CleanupExpired ==
    /\ customer_tokens' = cleanupExpired(customer_tokens, now)
    /\ code_verifiers' = cleanupExpired(code_verifiers, now)
    /\ last' = [ kind |-> "other" ]
    /\ UNCHANGED << now, customer_account_urls, nextId, cbs, cfgVars, clientVars,
                    gatewayVars >>

vars == << now, code_verifiers, customer_tokens, customer_account_urls, nextId,
           cbs, accessToken, shopId, envToken, last, tools, storefrontTools,
           customerTools, sfPending, cuPending, tasks, lastLister, sessions,
           channels, open, nextSession, timers, posts >>

StoreInit ==
    /\ now = 0
    /\ code_verifiers = {}
    /\ customer_tokens = {}
    /\ customer_account_urls = {}
    /\ nextId = 1
    /\ cbs = << >>
    /\ last = [ kind |-> "other" ]

InitAuth ==
    /\ StoreInit
    /\ ClientInit
    /\ accessToken = NoString
    /\ shopId = NoString
    /\ envToken = NoString

NextAuth ==
    \/ BeginAuthorization
    \/ CallbackArrives
    \/ ExchangeSucceeds
    \/ ExchangeFails
    \/ Tick
    \/ CleanupExpired

SpecAuth == InitAuth /\ [][NextAuth]_vars

(* The answers of the token endpoint: authorizations begin, callbacks      *)
(* arrive, and the endpoint grants the token or refuses with one of        *)
(* several statuses and bodies.                                            *)
FailureStatuses == { "400", "401", "500" }
ErrorTexts == { << >>, << "invalid_grant" >>, << "{\"error\":\"server_error\"}" >> }

ExchangeRejected ==
    \E i \in DOMAIN cbs, status \in FailureStatuses, errorText \in ErrorTexts :
        ExchangeResponse(i, FALSE, NoString, 0, status, errorText)

InitExchange == InitAuth

NextExchange ==
    \/ BeginAuthorization
    \/ CallbackArrives
    \/ ExchangeSucceeds
    \/ ExchangeRejected

SpecExchange == InitExchange /\ [][NextExchange]_vars

-----------------------------------------------------------------------------
(* The verifier table over a longer clock: authorizations begin, callbacks *)
(* look their verifier up, the hourly sweep runs, and time passes until    *)
(* MaxClock, so that a lookup can come later than the verifier's expiry on *)
(* the day of the expiry.                                                  *)

MaxClock == 3

ClockTick ==
    /\ now < MaxClock
    /\ now' = now + 1
    /\ last' = [ kind |-> "other" ]
    /\ UNCHANGED << storeVars, cbs, cfgVars, clientVars, gatewayVars >>

InitVerifier == InitAuth

NextVerifier ==
    \/ BeginAuthorization
    \/ CallbackArrives
    \/ ClockTick
    \/ CleanupExpired

SpecVerifier == InitVerifier /\ [][NextVerifier]_vars

(* The same without the hourly sweep: the timer never fires. *)
InitNoSweep == InitAuth

NextNoSweep ==
    \/ BeginAuthorization
    \/ CallbackArrives
    \/ ClockTick

SpecNoSweep == InitNoSweep /\ [][NextNoSweep]_vars

-----------------------------------------------------------------------------
(* mcp-client.js: credential resolution *)

ResolveSessionIds == { <<"s1">>, <<"s2">> }
ClientShopIds == { NoString, <<"shop">> }

OptionSets ==
    [ accessToken : ProvidedTokens, sessionId : { NoString } \cup ResolveSessionIds ]

(* MCPClient._getAccessToken: every outcome as the token returned and the  *)
(* value of this.accessToken afterwards.                                   *)
_getAccessToken(options) ==
    LET bySession ==
            IF options.sessionId # NoString
            THEN { r \in getCustomerToken(customer_tokens, options.sessionId, now) :
                     r.access_token # NoString }
            ELSE {}
        byShop ==
            IF shopId # NoString
            THEN { r \in getCustomerTokenByShop(customer_tokens, shopId, now) :
                     r.access_token # NoString }
            ELSE {}
    IN  IF options.accessToken # NoString
        THEN { [ token |-> options.accessToken, inst |-> accessToken ] }
        ELSE IF bySession # {}
        THEN { [ token |-> r.access_token, inst |-> accessToken ] : r \in bySession }
        ELSE IF byShop # {}
        THEN { [ token |-> r.access_token, inst |-> accessToken ] : r \in byShop }
        ELSE IF accessToken # NoString
        THEN { [ token |-> accessToken, inst |-> accessToken ] }
        ELSE IF envToken # NoString
        THEN { [ token |-> envToken, inst |-> envToken ] }
        ELSE { [ token |-> NoString, inst |-> accessToken ] }

(* A caller resolves a credential. *)
Resolve ==
    \E options \in OptionSets : \E out \in _getAccessToken(options) :
        /\ accessToken' = out.inst
        /\ last' = [ kind |-> "resolve", options |-> options,
                     token |-> out.token, instBefore |-> accessToken ]
        /\ UNCHANGED << now, storeVars, cbs, shopId, envToken, clientVars,
                    gatewayVars >>

(* A token exchange completed for a session and a shop: the callback's     *)
(* storeCustomerToken call.                                                *)
StoreToken ==
    \E s \in ResolveSessionIds, h \in ShopIds, e \in ExpiresInValues :
        /\ nextId <= MaxIds
        /\ customer_tokens' =
              storeCustomerToken(customer_tokens, s, h, IssuedToken(nextId),
                                 now + e, now)
        /\ nextId' = nextId + 1
        /\ last' = [ kind |-> "other" ]
        /\ UNCHANGED << now, code_verifiers, customer_account_urls, cbs, cfgVars,
                        clientVars, gatewayVars >>

InitResolve ==
    /\ StoreInit
    /\ ClientInit
    /\ accessToken \in StaticTokens
    /\ shopId \in ClientShopIds
    /\ envToken \in EnvTokens

NextResolve ==
    \/ StoreToken
    \/ Tick
    \/ CleanupExpired
    \/ Resolve

SpecResolve == InitResolve /\ [][NextResolve]_vars

-----------------------------------------------------------------------------
(* mcp-client.js: the catalog, connectAll and callTool *)

MaxPending == 1
MaxCalls == 3
InvalidRequest == -32600

(* What the providers answer to tools/list. *)
Tool(n, d) == [ name |-> n, description |-> d, inputSchema |-> "schema" ]
StorefrontListings ==
    { << Tool("a", "sf") >>, << Tool("a", "sf"), Tool("b", "sf") >> }
CustomerListings ==
    { << Tool("b", "cu") >>, << Tool("a", "cu"), Tool("b", "cu") >> }

(* The errors _makeJsonRpcRequest throws: a message, as words, and a code. *)
ErrorValues ==
    { [ message |-> << "Session", "terminated" >>, code |-> -32000 ],
      [ message |-> << "session", "busy" >>, code |-> InvalidRequest ],
      [ message |-> << "session", "busy" >>, code |-> -32000 ],
      [ message |-> << "timeout" >>, code |-> InvalidRequest ] }

ClientOptionSets == { NoOptions, [ accessToken |-> <<"A">>, sessionId |-> NoString ] }

Mutant_toLowerCase(message) == message

toLowerCase(message) ==
    [ i \in DOMAIN message |->
        IF message[i] = "Session" THEN "session"
        ELSE IF message[i] \in { "Bearer", "BEARER" } THEN "bearer"
        ELSE message[i] ]

(* String.prototype.includes, on words *)
includes(message, pattern) ==
    \E k \in 0..(Len(message) - Len(pattern)) :
        \A i \in 1..Len(pattern) : message[k + i] = pattern[i]

sessionTerminatedPatterns ==
    { << "session", "terminated" >>, << "session", "expired" >>,
      << "session", "not", "found" >>, << "invalid", "session" >>,
      << "session", "closed" >> }

_isSessionTerminatedError(error) ==
    LET message == toLowerCase(error.message)
    IN  \/ \E pattern \in sessionTerminatedPatterns : includes(message, pattern)
        \/ error.code = InvalidRequest /\ includes(message, << "session" >>)

(* connectToCustomerServer's condition for its one retry of tools/list *)
Mutant_ListShouldRetry(error, isRetry) == _isSessionTerminatedError(error)

ListShouldRetry(error, isRetry) == _isSessionTerminatedError(error) /\ ~isRetry

Mutant_CallShouldRecover(error, isRetry) == _isSessionTerminatedError(error)

(* _callCustomerTool's condition for reconnecting and calling again *)
CallShouldRecover(error, isRetry) == _isSessionTerminatedError(error) /\ ~isRetry

Names(seq) == { seq[i].name : i \in DOMAIN seq }

_formatToolsData(toolsData) ==
    [ i \in DOMAIN toolsData |->
        [ name |-> toolsData[i].name, description |-> toolsData[i].description,
          input_schema |-> toolsData[i].inputSchema ] ]

Mutant_FilterOut(seq, names) == << >>

(* this.tools.filter(t => !oldCustomerToolNames.has(t.name)) *)
FilterOut(seq, names) == SelectSeq(seq, LAMBDA t : t.name \notin names)

(* The provider whose most recent successful listing a name comes from,    *)
(* after provider p listed the names ns.                                   *)
Listed(p, ns) ==
    [ n \in ToolNames |->
        IF n \in ns THEN p
        ELSE IF lastLister[n] # p THEN lastLister[n]
        ELSE IF p = "customer" /\ n \in Names(storefrontTools) THEN "storefront"
        ELSE IF p = "storefront" /\ n \in Names(customerTools) THEN "customer"
        ELSE "none" ]

(* A customer request is about to be sent: _getAccessToken runs. *)
ResolvesToken(options) ==
    \E out \in _getAccessToken(options) : accessToken' = out.inst

(* connectToStorefrontServer after a tools/list result *)
StorefrontListed(toolsData) ==
    /\ storefrontTools' = _formatToolsData(toolsData)
    /\ tools' = tools \o storefrontTools'
    /\ customerTools' = customerTools
    /\ lastLister' = Listed("storefront", Names(toolsData))

(* connectToCustomerServer after a tools/list result *)
CustomerListed(toolsData) ==
    /\ customerTools' = _formatToolsData(toolsData)
    /\ tools' = FilterOut(tools, Names(customerTools)) \o customerTools'
    /\ storefrontTools' = storefrontTools
    /\ lastLister' = Listed("customer", Names(toolsData))

_clearCustomerTools ==
    /\ tools' = FilterOut(tools, Names(customerTools))
    /\ customerTools' = << >>
    /\ storefrontTools' = storefrontTools
    /\ lastLister' = Listed("customer", {})

clientFrame == << now, storeVars, cbs, shopId, envToken, last, gatewayVars >>

(* connectAll(): every caller passes no options.  The lists are emptied    *)
(* and both connects run up to their tools/list request.                   *)
connectAll ==
    /\ tools' = << >>
    /\ storefrontTools' = << >>
    /\ customerTools' = << >>
    /\ lastLister' = [ n \in ToolNames |-> "none" ]
    /\ sfPending' = sfPending + 1
    /\ cuPending' = [ cuPending EXCEPT !["list"] = @ + 1 ]
    /\ ResolvesToken(NoOptions)
    /\ UNCHANGED << tasks, clientFrame >>

ConnectAll ==
    /\ sfPending < MaxPending
    /\ cuPending["list"] + cuPending["backoff"] + cuPending["relist"] < MaxPending
    /\ connectAll

(* The storefront answers a tools/list of connectAll. *)
StorefrontListResponse ==
    /\ sfPending > 0
    /\ sfPending' = sfPending - 1
    /\ \/ \E toolsData \in StorefrontListings : StorefrontListed(toolsData)
       \/ UNCHANGED catalogVars
    /\ UNCHANGED << cuPending, tasks, accessToken, clientFrame >>

(* The customer provider answers a tools/list of connectAll with a result. *)
CustomerListResult ==
    \E pc \in { "list", "relist" }, toolsData \in CustomerListings :
        /\ cuPending[pc] > 0
        /\ cuPending' = [ cuPending EXCEPT ![pc] = @ - 1 ]
        /\ CustomerListed(toolsData)
        /\ UNCHANGED << sfPending, tasks, accessToken, clientFrame >>

(* The customer provider answers a tools/list of connectAll with an error: *)
(* the first request of a connect is retried after a session-terminated    *)
(* error, everything else rejects the connect, which connectAll logs.      *)
CustomerListError ==
    \E pc \in { "list", "relist" }, error \in ErrorValues :
        /\ cuPending[pc] > 0
        /\ IF ListShouldRetry(error, pc = "relist")
           THEN /\ _clearCustomerTools
                /\ cuPending' = [ cuPending EXCEPT ![pc] = @ - 1,
                                                   !["backoff"] = @ + 1 ]
           ELSE /\ cuPending' = [ cuPending EXCEPT ![pc] = @ - 1 ]
                /\ UNCHANGED catalogVars
        /\ UNCHANGED << sfPending, tasks, accessToken, clientFrame >>

(* The 500 ms wait of a connectAll connect is over: tools/list is sent     *)
(* again, marked as a retry.                                               *)
BackoffElapsed ==
    /\ cuPending["backoff"] > 0
    /\ cuPending' = [ cuPending EXCEPT !["backoff"] = @ - 1, !["relist"] = @ + 1 ]
    /\ ResolvesToken(NoOptions)
    /\ UNCHANGED << catalogVars, sfPending, tasks, clientFrame >>

(* callTool(toolName, toolArgs, options) up to its first request *)
callTool(t, toolName, options) ==
    LET started == [ IdleTask EXCEPT !.name = toolName, !.options = options,
                                     !.owner = lastLister[toolName] ]
    IN  /\ tasks[t].pc = "idle"
        /\ IF toolName \in Names(storefrontTools)
           THEN /\ tasks' = [ tasks EXCEPT ![t] =
                      [ started EXCEPT !.pc = "storefrontCall",
                                       !.route = "storefront" ] ]
                /\ UNCHANGED accessToken
           ELSE IF toolName \in Names(customerTools)
           THEN /\ tasks' = [ tasks EXCEPT ![t] =
                      [ started EXCEPT !.pc = "customerCall", !.route = "customer",
                                       !.calls = 1 ] ]
                /\ ResolvesToken(options)
           ELSE IF customerTools = << >>
           THEN /\ tasks' = [ tasks EXCEPT ![t] =
                      [ started EXCEPT !.pc = "list", !.ctx = "lookup" ] ]
                /\ ResolvesToken(options)
           ELSE /\ tasks' = [ tasks EXCEPT ![t] =
                      [ started EXCEPT !.pc = "done", !.outcome = "notfound" ] ]
                /\ UNCHANGED accessToken
        /\ UNCHANGED << catalogVars, sfPending, cuPending, clientFrame >>

CallTool ==
    \E t \in TaskIds, toolName \in ToolNames, options \in ClientOptionSets :
        callTool(t, toolName, options)

(* _callStorefrontTool: the storefront answers tools/call *)
StorefrontCallResponse ==
    \E t \in TaskIds :
        /\ tasks[t].pc = "storefrontCall"
        /\ \/ tasks' = [ tasks EXCEPT ![t].pc = "done", ![t].outcome = "returned" ]
           \/ \E error \in ErrorValues :
                 tasks' = [ tasks EXCEPT ![t].pc = "done", ![t].outcome = "threw",
                                         ![t].thrown = error ]
        /\ UNCHANGED << catalogVars, sfPending, cuPending, accessToken, clientFrame >>

(* _callCustomerTool: the customer provider answers tools/call with a      *)
(* result.                                                                 *)
CustomerCallResult ==
    \E t \in TaskIds :
        /\ tasks[t].pc = "customerCall"
        /\ tasks' = [ tasks EXCEPT ![t].pc = "done", ![t].outcome = "returned" ]
        /\ UNCHANGED << catalogVars, sfPending, cuPending, accessToken, clientFrame >>

(* _callCustomerTool: the customer provider answers tools/call with an     *)
(* error.  Either the catalog is cleared and connectToCustomerServer       *)
(* starts, or the call throws: a re-issued call throws into the catch of   *)
(* the call that issued it, which throws its own error.                    *)
CustomerCallError ==
    \E t \in TaskIds, error \in ErrorValues :
        LET task == tasks[t]
            first == IF task.isRetry THEN task.firstError ELSE error
        IN  /\ task.pc = "customerCall"
            /\ IF CallShouldRecover(error, task.isRetry)
               THEN /\ _clearCustomerTools
                    /\ tasks' = [ tasks EXCEPT ![t] =
                          [ task EXCEPT !.pc = "list", !.ctx = "recover",
                                        !.recoveries = @ + 1,
                                        !.firstError = first,
                                        !.lastError = error ] ]
                    /\ ResolvesToken(task.options)
               ELSE /\ tasks' = [ tasks EXCEPT ![t] =
                          [ task EXCEPT !.pc = "done", !.outcome = "threw",
                                        !.firstError = first,
                                        !.lastError = error,
                                        !.thrown = first ] ]
                    /\ UNCHANGED << catalogVars, accessToken >>
            /\ UNCHANGED << sfPending, cuPending, clientFrame >>

(* connectToCustomerServer called by a callTool invocation: tools/list     *)
(* gets a result.  callTool calls the tool if it is listed now and throws  *)
(* "not found" otherwise; _callCustomerTool issues its call again, marked  *)
(* as a retry.                                                             *)
TaskListResult ==
    \E t \in TaskIds, toolsData \in CustomerListings :
        LET task == tasks[t]
        IN  /\ task.pc \in { "list", "relist" }
            /\ task.ctx = "recover" => task.calls < MaxCalls
            /\ CustomerListed(toolsData)
            /\ IF task.ctx = "recover"
               THEN /\ tasks' = [ tasks EXCEPT ![t] =
                          [ task EXCEPT !.pc = "customerCall", !.isRetry = TRUE,
                                        !.reconnected = TRUE, !.calls = @ + 1 ] ]
                    /\ ResolvesToken(task.options)
               ELSE IF task.name \in Names(toolsData)
               THEN /\ tasks' = [ tasks EXCEPT ![t] =
                          [ task EXCEPT !.pc = "customerCall", !.route = "customer",
                                        !.calls = 1 ] ]
                    /\ ResolvesToken(task.options)
               ELSE /\ tasks' = [ tasks EXCEPT ![t] =
                          [ task EXCEPT !.pc = "done", !.outcome = "notfound" ] ]
                    /\ UNCHANGED accessToken
            /\ UNCHANGED << sfPending, cuPending, clientFrame >>

(* connectToCustomerServer called by a callTool invocation: tools/list     *)
(* gets an error.  A failed connect makes callTool throw "not found" and   *)
(* _callCustomerTool throw the error of its call.                          *)
TaskListError ==
    \E t \in TaskIds, error \in ErrorValues :
        LET task == tasks[t]
        IN  /\ task.pc \in { "list", "relist" }
            /\ IF ListShouldRetry(error, task.pc = "relist")
               THEN /\ _clearCustomerTools
                    /\ tasks' = [ tasks EXCEPT ![t].pc = "backoff" ]
               ELSE /\ tasks' = [ tasks EXCEPT ![t] =
                          IF task.ctx = "recover"
                          THEN [ task EXCEPT !.pc = "done", !.outcome = "threw",
                                             !.thrown = task.firstError ]
                          ELSE [ task EXCEPT !.pc = "done",
                                             !.outcome = "notfound" ] ]
                    /\ UNCHANGED catalogVars
            /\ UNCHANGED << sfPending, cuPending, accessToken, clientFrame >>

(* The 500 ms wait of an invocation's connect is over. *)
TaskBackoffElapsed ==
    \E t \in TaskIds :
        /\ tasks[t].pc = "backoff"
        /\ tasks' = [ tasks EXCEPT ![t].pc = "relist" ]
        /\ ResolvesToken(tasks[t].options)
        /\ UNCHANGED << catalogVars, sfPending, cuPending, clientFrame >>

(* The caller has its answer. *)
Release ==
    \E t \in TaskIds :
        /\ tasks[t].pc = "done"
        /\ tasks' = [ tasks EXCEPT ![t] = IdleTask ]
        /\ UNCHANGED << catalogVars, sfPending, cuPending, accessToken, clientFrame >>

InitClient ==
    /\ StoreInit
    /\ ClientInit
    /\ accessToken \in StaticTokens
    /\ shopId = NoString
    /\ envToken \in EnvTokens

NextClient ==
    \/ ConnectAll
    \/ StorefrontListResponse
    \/ CustomerListResult
    \/ CustomerListError
    \/ BackoffElapsed
    \/ CallTool
    \/ StorefrontCallResponse
    \/ CustomerCallResult
    \/ CustomerCallError
    \/ TaskListResult
    \/ TaskListError
    \/ TaskBackoffElapsed
    \/ Release

SpecClient == InitClient /\ [][NextClient]_vars

-----------------------------------------------------------------------------
(* connectAll on its own: one refresh at a time and no callTool beside it, *)
(* as at start-up (server.js) and for requests that come one by one.       *)

(* Promise.allSettled has both results. *)
Settled ==
    /\ sfPending = 0
    /\ cuPending["list"] + cuPending["backoff"] + cuPending["relist"] = 0

RefreshAll ==
    /\ Settled
    /\ ConnectAll

InitRefresh == InitClient

NextRefresh ==
    \/ RefreshAll
    \/ StorefrontListResponse
    \/ CustomerListResult
    \/ CustomerListError
    \/ BackoffElapsed

SpecRefresh == InitRefresh /\ [][NextRefresh]_vars

(* connectAll beside connectAll: GET /api/tools and the gateway's          *)
(* tools/list call it for every request, so a second one starts while the  *)
(* listings of the first are still awaited.                                *)
MaxRefreshes == 2

ConnectAllAgain ==
    /\ sfPending < MaxRefreshes
    /\ cuPending["list"] + cuPending["backoff"] + cuPending["relist"] < MaxRefreshes
    /\ connectAll

InitRace == InitClient

NextRace ==
    \/ ConnectAllAgain
    \/ StorefrontListResponse
    \/ CustomerListResult
    \/ CustomerListError
    \/ BackoffElapsed

SpecRace == InitRace /\ [][NextRace]_vars

-----------------------------------------------------------------------------
(* mcp-client.js: the Authorization header of a customer request.  A token *)
(* is a string of units: the word bearer in three spellings, a space, and  *)
(* other text.                                                             *)

MaxTokenLen == 3

TokenUnits == { "Bearer", "bearer", "BEARER", " ", "x" }

RECURSIVE StringsUpTo(_)
StringsUpTo(n) ==
    IF n = 0 THEN { << >> }
    ELSE StringsUpTo(n - 1) \cup
         { Append(w, u) : w \in { v \in StringsUpTo(n - 1) : Len(v) = n - 1 },
                          u \in TokenUnits }

ResolvedTokens == StringsUpTo(MaxTokenLen) \ { << >> }

(* String.prototype.startsWith *)
startsWith(str, prefix) ==
    /\ Len(str) >= Len(prefix)
    /\ \A i \in 1..Len(prefix) : str[i] = prefix[i]

(* if (token && !token.toLowerCase().startsWith('bearer '))                *)
(*   token = `Bearer ${token}`                                             *)
ensureBearer(token) ==
    IF token # NoString /\ ~ startsWith(toLowerCase(token), << "bearer", " " >>)
    THEN << "Bearer", " " >> \o token
    ELSE token

(* _makeJsonRpcRequest: the Authorization header that goes out, given the  *)
(* one of the caller (NoString: none).                                     *)
finalHeadersAuthorization(authorization) ==
    IF authorization = NoString /\ accessToken # NoString
    THEN ensureBearer(accessToken)
    ELSE authorization

(* _callCustomerTool has resolved last.token and sends the request. *)
SendCustomerCall ==
    /\ last.kind = "resolved"
    /\ last' = [ kind |-> "sent", token |-> last.token,
                 authorization |-> finalHeadersAuthorization(ensureBearer(last.token)) ]
    /\ UNCHANGED << now, storeVars, cbs, cfgVars, clientVars, gatewayVars >>

(* The value that was sent comes back as the token of a later call         *)
(* (options.accessToken, the Authorization header of a gateway request).   *)
SendAgain ==
    /\ last.kind = "sent"
    /\ last' = [ kind |-> "resent", token |-> last.authorization,
                 authorization |->
                     finalHeadersAuthorization(ensureBearer(last.authorization)) ]
    /\ UNCHANGED << now, storeVars, cbs, cfgVars, clientVars, gatewayVars >>

InitBearer ==
    /\ now = 0
    /\ code_verifiers = {}
    /\ customer_tokens = {}
    /\ customer_account_urls = {}
    /\ nextId = 1
    /\ cbs = << >>
    /\ ClientInit
    /\ accessToken \in StaticTokens
    /\ shopId = NoString
    /\ envToken = NoString
    /\ \E token \in ResolvedTokens : last = [ kind |-> "resolved", token |-> token ]

NextBearer ==
    \/ SendCustomerCall
    \/ SendAgain

SpecBearer == InitBearer /\ [][NextBearer]_vars

(* Requests to the storefront endpoint.  connectToStorefrontServer and     *)
(* _callStorefrontTool pass { "Content-Type": "application/json" } to      *)
(* _makeJsonRpcRequest; customer calls resolve credentials on the same     *)
(* client in between.                                                      *)
StorefrontRequest ==
    \E method \in { "tools/list", "tools/call" } :
        /\ last' = [ kind |-> "storefront", method |-> method,
                     authorization |-> finalHeadersAuthorization(NoString) ]
        /\ UNCHANGED << now, storeVars, cbs, cfgVars, clientVars, gatewayVars >>

InitStorefront == InitResolve

NextStorefront ==
    \/ StoreToken
    \/ Resolve
    \/ StorefrontRequest

SpecStorefront == InitStorefront /\ [][NextStorefront]_vars

-----------------------------------------------------------------------------
(* routes/mcp.js: the SSE transport.  The requests are those that reach    *)
(* the routes: their bodies were parsed by express.json().  What the       *)
(* client does for tools/list and tools/call is SpecClient's; here a       *)
(* handler that awaits the client ends with a result or with an error.     *)

MaxSessions == 2
MaxPosts == 1

(* crypto.randomUUID() *)
SessionNames == << "u1", "u2", "u3", "u4" >>
Mutant_generateSessionId == SessionNames[1]

generateSessionId == SessionNames[nextSession]

(* The session_id query parameter: absent, an id that was never issued, or *)
(* an id that may have been issued.                                        *)
QuerySessionIds == { "", "zz" } \cup { SessionNames[i] : i \in 1..MaxSessions }

(* JSON values of the id member, by their JSON text; "undefined" is a      *)
(* member that is absent.                                                  *)
JsonIds == { "undefined", "null", "0", "7" }
Falsy(id) == id \in { "undefined", "null", "0" }
OrNull(id) == IF Falsy(id) THEN "null" ELSE id

Methods == { "initialize", "notifications/initialized", "tools/list", "tools/call",
             "resources/list" }
Bodies == [ jsonrpc : { "2.0", "1.0" }, id : JsonIds, method : Methods ]

undefinedSession == [ defined |-> FALSE, res |-> "", accessToken |-> NoString ]

Mutant_sessionsGet(map, sessionId) ==
    IF sessionId \in DOMAIN map THEN map[sessionId]
    ELSE [ defined |-> TRUE, res |-> "", accessToken |-> NoString ]

(* sessions.get(sessionId) *)
sessionsGet(map, sessionId) ==
    IF sessionId \in DOMAIN map THEN map[sessionId] ELSE undefinedSession

Mutant_sessionsDelete(map, sessionId) == map

(* sessions.delete(sessionId) *)
sessionsDelete(map, sessionId) ==
    [ k \in DOMAIN map \ { sessionId } |-> map[k] ]

Mutant_sendSseMessageThrows(res) == res = ""

(* sendSseMessage catches what res.write throws, also the TypeError of a   *)
(* session that has no res.                                                *)
sendSseMessageThrows(res) == FALSE

Mutant_sendSseMessage(res, data) == channels

(* sendSseMessage(res, data): the event reaches the channel of an open     *)
(* response; a session without res and a closed response get nothing.      *)
sendSseMessage(res, data) ==
    IF res \in open
    THEN [ channels EXCEPT ![res] = Append(@, data) ]
    ELSE channels

(* setInterval / clearInterval of a stream's heartbeat *)
setInterval(set, res) == set \cup { res }
clearInterval(set, res) == set \ { res }

(* The JSON-RPC envelopes, with the request that caused them. *)
ErrorEnvelope(post, id, code) ==
    [ event |-> "message", post |-> post, id |-> id, kind |-> "error",
      code |-> code ]
ResultEnvelope(post, id) ==
    [ event |-> "message", post |-> post, id |-> id, kind |-> "result", code |-> 0 ]

(* GET /sse: the endpoint event is written and the session is stored     *)
(* with the credential of the request (query or header), null if none.    *)
openStream(token) ==
    /\ nextSession <= MaxSessions
    /\ channels' = channels @@
          (generateSessionId :> << [ event |-> "endpoint", post |-> 0,
                                     id |-> generateSessionId, kind |-> "endpoint",
                                     code |-> 0 ] >>)
    /\ sessions' = sessions @@
          (generateSessionId :> [ defined |-> TRUE, res |-> generateSessionId,
                                  accessToken |-> token ])
    /\ open' = open \cup { generateSessionId }
    /\ timers' = setInterval(timers, generateSessionId)
    /\ nextSession' = nextSession + 1
    /\ UNCHANGED << posts, now, storeVars, cbs, cfgVars, last, clientVars >>

(* GET /sse without a credential *)
OpenStream == openStream(NoString)

(* req.on('close') of a stream *)
CloseStream ==
    \E sessionId \in open :
        /\ open' = open \ { sessionId }
        /\ timers' = clearInterval(timers, sessionId)
        /\ sessions' = sessionsDelete(sessions, sessionId)
        /\ UNCHANGED << channels, nextSession, posts, now, storeVars, cbs, cfgVars,
                        last, clientVars >>

(* handleMcpMessage (POST /sse, POST /message) with a valid initialize:    *)
(* a session without res is stored.                                        *)
SyncInitialize ==
    /\ nextSession <= MaxSessions
    /\ sessions' = sessions @@
          (generateSessionId :> [ defined |-> TRUE, res |-> "",
                                  accessToken |-> NoString ])
    /\ nextSession' = nextSession + 1
    /\ UNCHANGED << channels, open, timers, posts, now, storeVars, cbs, cfgVars, last,
                    clientVars >>

MethodNotFound == -32601
ServerError == -32000

(* The status the POST gets after a sendSseMessage: 202 when it returned,  *)
(* the fault of an exception that nothing catches otherwise.               *)
StatusAfterSend(res) == IF sendSseMessageThrows(res) THEN 500 ELSE 202

(* The end of the try block: a request gets its result on the channel, a   *)
(* notification (no id, or null) gets nothing.                             *)
SendResult(res, post, id) ==
    IF id \in { "undefined", "null" }
    THEN channels
    ELSE sendSseMessage(res, ResultEnvelope(post, id))

(* POST /messages?session_id=...: everything up to the first await of a    *)
(* provider, or to the response.                                           *)
postMessages(sessionId, body) ==
    LET post == Len(posts) + 1
        session == sessionsGet(sessions, sessionId)
        received == [ session_id |-> sessionId, found |-> sessionId \in DOMAIN sessions,
                      res |-> session.res, id |-> body.id, pc |-> "done", status |-> 0,
                      handled |-> FALSE, outcome |-> "none" ]
    IN  /\ IF sessionId = ""
           THEN /\ posts' = Append(posts, [ received EXCEPT !.status = 400,
                                                            !.outcome = "rejected" ])
                /\ UNCHANGED channels
           ELSE IF ~session.defined
           THEN /\ posts' = Append(posts, [ received EXCEPT !.status = 404,
                                                            !.outcome = "rejected" ])
                /\ UNCHANGED channels
           ELSE IF body.jsonrpc # "2.0"
           THEN /\ channels' = sendSseMessage(session.res,
                      ErrorEnvelope(post, OrNull(body.id), InvalidRequest))
                /\ posts' = Append(posts,
                      [ received EXCEPT !.status = StatusAfterSend(session.res),
                                        !.outcome = "invalid" ])
           ELSE IF body.method \in { "initialize", "notifications/initialized" }
           THEN /\ channels' = SendResult(session.res, post, body.id)
                /\ posts' = Append(posts,
                      [ received EXCEPT !.status = StatusAfterSend(session.res),
                                        !.handled = TRUE, !.outcome = "ok" ])
           ELSE IF body.method \in { "tools/list", "tools/call" }
           THEN /\ posts' = Append(posts, [ received EXCEPT !.pc = "handling",
                                                            !.handled = TRUE ])
                /\ UNCHANGED channels
           ELSE /\ channels' = sendSseMessage(session.res,
                      ErrorEnvelope(post, body.id, MethodNotFound))
                /\ posts' = Append(posts,
                      [ received EXCEPT !.status = StatusAfterSend(session.res),
                                        !.outcome = "unknown_method" ])
        /\ UNCHANGED << sessions, open, nextSession, timers, now, storeVars, cbs,
                        cfgVars,
                        last, clientVars >>

PostMessages ==
    /\ Len(posts) < MaxPosts
    /\ \E sessionId \in QuerySessionIds, body \in Bodies :
           postMessages(sessionId, body)

(* handleToolsList / handleToolsCall returns. *)
HandlerReturns ==
    \E post \in DOMAIN posts :
        /\ posts[post].pc = "handling"
        /\ channels' = SendResult(posts[post].res, post, posts[post].id)
        /\ posts' = [ posts EXCEPT ![post].pc = "done", ![post].outcome = "ok",
                         ![post].status = StatusAfterSend(posts[post].res) ]
        /\ UNCHANGED << sessions, open, nextSession, timers, now, storeVars, cbs,
                        cfgVars,
                        last, clientVars >>

(* handleToolsList / handleToolsCall throws: the catch block. *)
HandlerThrows ==
    \E post \in DOMAIN posts :
        /\ posts[post].pc = "handling"
        /\ channels' = sendSseMessage(posts[post].res,
              ErrorEnvelope(post, posts[post].id, ServerError))
        /\ posts' = [ posts EXCEPT ![post].pc = "done", ![post].outcome = "threw",
                         ![post].status = StatusAfterSend(posts[post].res) ]
        /\ UNCHANGED << sessions, open, nextSession, timers, now, storeVars, cbs,
                        cfgVars,
                        last, clientVars >>

InitGateway ==
    /\ StoreInit
    /\ ClientInit
    /\ accessToken = NoString
    /\ shopId = NoString
    /\ envToken = NoString

NextGateway ==
    \/ OpenStream
    \/ CloseStream
    \/ SyncInitialize
    \/ PostMessages
    \/ HandlerReturns
    \/ HandlerThrows

SpecGateway == InitGateway /\ [][NextGateway]_vars

(* Clients come and go: a stream that is open is closed by its client at   *)
(* some time, and req.on('close') then runs.  Nothing else in the gateway  *)
(* is scheduled: it has no timer that visits the session map.              *)
SpecSessions == InitGateway /\ [][NextGateway]_vars /\ WF_vars(CloseStream)

-----------------------------------------------------------------------------
(* The credential of a tools/call on the streaming transport.  Streams     *)
(* open with the credential of their client or with none, and a tools/call *)
(* for a customer tool goes from the route through handleToolsCall and     *)
(* callTool to _callCustomerTool, which resolves its credential on the     *)
(* client that all sessions share.                                         *)

(* The credential the client of a stream presents on GET /sse. *)
SessionCredential(sessionId) == << "K", sessionId >>

HeaderTokens == { NoString, << "H" >> }
ParamTokens == { NoString, << "P" >> }

(* a || b of two strings *)
Or(a, b) == IF a # NoString THEN a ELSE b

Mutant_sseToken(map, sessionId, headerToken) ==
    Or(map[CHOOSE k \in DOMAIN map : TRUE].accessToken, headerToken)

(* const sseToken = sessionToken || headerToken *)
sseToken(map, sessionId, headerToken) ==
    Or(sessionsGet(map, sessionId).accessToken, headerToken)

(* handleToolsCall: dynamicToken = paramToken || options.accessToken;      *)
(* callOptions = dynamicToken ? { accessToken: dynamicToken } : {}         *)
callOptions(map, sessionId, headerToken, paramToken) ==
    [ accessToken |-> Or(paramToken, sseToken(map, sessionId, headerToken)),
      sessionId |-> NoString ]

OpenStreamWithToken ==
    \E token \in { NoString, SessionCredential(generateSessionId) } :
        openStream(token)

ToolsCall ==
    \E sessionId \in DOMAIN sessions, headerToken \in HeaderTokens,
       paramToken \in ParamTokens :
        \E out \in _getAccessToken(callOptions(sessions, sessionId, headerToken,
                                               paramToken)) :
            /\ accessToken' = out.inst
            /\ last' = [ kind |-> "toolsCall", session_id |-> sessionId,
                         headerToken |-> headerToken, paramToken |-> paramToken,
                         credential |-> out.token ]
            /\ UNCHANGED << now, storeVars, cbs, shopId, envToken, clientVars,
                            gatewayVars >>

(* A customer of the client's shop completed an authorization: the        *)
(* callback's storeCustomerToken call.                                     *)
ShopTokenStored ==
    \E s \in ResolveSessionIds :
        /\ nextId <= MaxIds
        /\ customer_tokens' =
              storeCustomerToken(customer_tokens, s, << "shop" >>,
                                 IssuedToken(nextId), now + 1, now)
        /\ nextId' = nextId + 1
        /\ last' = [ kind |-> "other" ]
        /\ UNCHANGED << now, code_verifiers, customer_account_urls, cbs, cfgVars,
                        clientVars, gatewayVars >>

InitTenant == InitResolve

NextTenant ==
    \/ OpenStreamWithToken
    \/ CloseStream
    \/ ShopTokenStored
    \/ ToolsCall

SpecTenant == InitTenant /\ [][NextTenant]_vars

-----------------------------------------------------------------------------
(* Requests on the streaming transport: streams open and close, and        *)
(* well-formed requests (with an id, for a method of the table or for one  *)
(* outside it) arrive, also while an earlier one is still being handled.   *)

MaxStreamPosts == 2

StreamBodies ==
    [ jsonrpc : { "2.0" }, id : { "0", "7" }, method : { "tools/list", "resources/list" } ]

PostRequest ==
    /\ Len(posts) < MaxStreamPosts
    /\ \E sessionId \in QuerySessionIds \ { "" }, body \in StreamBodies :
           postMessages(sessionId, body)

MaxBeats == 1

HeartbeatEvent ==
    [ event |-> "heartbeat", post |-> 0, id |-> "", kind |-> "comment", code |-> 0 ]

Beats(res) == Len(SelectSeq(channels[res], LAMBDA e : e.event = "heartbeat"))

(* The interval of a stream fires: res.write(':heartbeat').  The write on  *)
(* a closed response reaches nobody and does not throw.                    *)
Heartbeat ==
    \E res \in timers :
        /\ Beats(res) < MaxBeats
        /\ channels' = IF res \in open
                       THEN [ channels EXCEPT ![res] = Append(@, HeartbeatEvent) ]
                       ELSE channels
        /\ UNCHANGED << sessions, open, nextSession, timers, posts, now, storeVars,
                        cbs, cfgVars, last, clientVars >>

InitStream == InitGateway

NextStream ==
    \/ OpenStream
    \/ CloseStream
    \/ PostRequest
    \/ HandlerReturns
    \/ HandlerThrows

SpecStream == InitStream /\ [][NextStream]_vars

(* The life of a stream: it opens, its heartbeat fires, requests are       *)
(* submitted under its id, it closes.                                      *)
Submission ==
    /\ Len(posts) < MaxPosts
    /\ \E sessionId \in QuerySessionIds, body \in StreamBodies :
           postMessages(sessionId, body)

InitHeartbeat == InitGateway

NextHeartbeat ==
    \/ OpenStream
    \/ CloseStream
    \/ Heartbeat
    \/ Submission
    \/ HandlerReturns
    \/ HandlerThrows

SpecHeartbeat == InitHeartbeat /\ [][NextHeartbeat]_vars

-----------------------------------------------------------------------------
(* routes/call.js with the client of mcp-client.js, whose                  *)
(* _callCustomerTool answers "authentication required" itself.  The        *)
(* request in progress is kept in last; clientId and redirectUri are       *)
(* configured, shopId may not be.                                          *)

(* `session_${Date.now()}`, a different one for every call *)
DefaultSessionNames == << "session_1", "session_2", "session_3", "session_4" >>

NoResult == [ type |-> "none", auth_url |-> NoString ]

(* req.body: tool and, as the README has it, session_id *)
BodySessionIds == { NoString } \cup ResolveSessionIds

ApiRequest(tool, session_id) ==
    [ kind |-> "apiCall", pc |-> "connecting", tool |-> tool,
      session_id |-> session_id, route |-> "none", token |-> NoString, sent |-> FALSE, status |-> 0, result |-> NoResult ]

(* MCPClient._generateAuthRequiredResponse for the request req, and the    *)
(* res.json of the route that follows it.  generateAuthUrl stores the      *)
(* shop's URLs and then the verifier; what it throws is caught and leaves  *)
(* the answer that has no auth_url.                                        *)
_generateAuthRequiredResponse(options, req) ==
    LET sessionId == IF options.sessionId # NoString THEN options.sessionId
                     ELSE << DefaultSessionNames[nextId] >>
        state == MakeState(sessionId, shopId)
        answer(url) == [ req EXCEPT !.pc = "done", !.status = 200,
                           !.result = [ type |-> "auth_required", auth_url |-> url ] ]
    IN  /\ nextId <= MaxIds
        /\ IF shopId = NoString
           THEN /\ last' = answer(NoString)
                /\ UNCHANGED << code_verifiers, customer_account_urls, nextId >>
           ELSE IF storeCodeVerifierThrows(code_verifiers, state)
           THEN /\ last' = answer(NoString)
                /\ customer_account_urls' = customer_account_urls \cup { shopId }
                /\ UNCHANGED << code_verifiers, nextId >>
           ELSE /\ last' = answer(<< "authorize" >> \o state)
                /\ customer_account_urls' = customer_account_urls \cup { shopId }
                /\ code_verifiers' =
                      storeCodeVerifier(code_verifiers, nextId, state, nextId, now)
                /\ nextId' = nextId + 1

(* callTool(tool, toolArgs): the route passes no options.  A storefront    *)
(* tool and a customer tool with a token go upstream, a customer tool      *)
(* without a token gets the authentication-required answer, an unknown     *)
(* tool makes callTool throw "not found", which the route answers 404.     *)
Dispatch(req) ==
    IF req.tool \in Names(storefrontTools)
    THEN /\ last' = [ req EXCEPT !.pc = "awaiting", !.route = "storefront" ]
         /\ UNCHANGED << code_verifiers, customer_account_urls, nextId >>
    ELSE IF req.tool \in Names(customerTools)
    THEN \E out \in _getAccessToken(NoOptions) :
            IF out.token = NoString
            THEN _generateAuthRequiredResponse(NoOptions,
                     [ req EXCEPT !.route = "customer" ])
            ELSE /\ last' = [ req EXCEPT !.pc = "awaiting", !.route = "customer",
                                         !.token = out.token, !.sent = TRUE ]
                 /\ UNCHANGED << code_verifiers, customer_account_urls, nextId >>
    ELSE /\ last' = [ req EXCEPT !.pc = "done", !.status = 404 ]
         /\ UNCHANGED << code_verifiers, customer_account_urls, nextId >>

ApiIdle == last.kind = "apiCall" => last.pc = "done"

(* POST /api/call { tool, session_id }: connectAll first when no tool is   *)
(* loaded.  The route reads tool and arguments from the body.              *)
ApiCall ==
    \E tool \in ToolNames, session_id \in BodySessionIds :
        /\ ApiIdle
        /\ IF Len(tools) = 0
           THEN /\ sfPending < MaxPending
                /\ cuPending["list"] + cuPending["backoff"] + cuPending["relist"]
                      < MaxPending
                /\ tools' = << >>
                /\ storefrontTools' = << >>
                /\ customerTools' = << >>
                /\ lastLister' = [ n \in ToolNames |-> "none" ]
                /\ sfPending' = sfPending + 1
                /\ cuPending' = [ cuPending EXCEPT !["list"] = @ + 1 ]
                /\ last' = ApiRequest(tool, session_id)
                /\ UNCHANGED << code_verifiers, customer_account_urls, nextId >>
           ELSE /\ Dispatch(ApiRequest(tool, session_id))
                /\ UNCHANGED << catalogVars, sfPending, cuPending >>
        /\ UNCHANGED << now, customer_tokens, cbs, cfgVars, tasks, gatewayVars >>

(* The connectAll of a POST /api/call has settled. *)
ApiCallConnected ==
    /\ last.kind = "apiCall"
    /\ last.pc = "connecting"
    /\ sfPending = 0
    /\ cuPending["list"] + cuPending["backoff"] + cuPending["relist"] = 0
    /\ Dispatch(last)
    /\ UNCHANGED << now, customer_tokens, cbs, cfgVars, clientVars, gatewayVars >>

(* The provider answers the tools/call of a POST /api/call.  A customer    *)
(* call that gets 401, or a result that reads like a login prompt, ends in *)
(* the authentication-required answer; every other error is rethrown and   *)
(* the route answers 500.                                                  *)
ApiCallResponse ==
    /\ last.kind = "apiCall"
    /\ last.pc = "awaiting"
    /\ \/ /\ last' = [ last EXCEPT !.pc = "done", !.status = 200,
                                   !.result = [ type |-> "plain",
                                                auth_url |-> NoString ] ]
          /\ UNCHANGED << code_verifiers, customer_account_urls, nextId >>
       \/ /\ last.route = "customer"
          /\ _generateAuthRequiredResponse(NoOptions, last)
       \/ /\ last' = [ last EXCEPT !.pc = "done", !.status = 500 ]
          /\ UNCHANGED << code_verifiers, customer_account_urls, nextId >>
    /\ UNCHANGED << now, customer_tokens, cbs, cfgVars, clientVars, gatewayVars >>

InitApiCall ==
    /\ StoreInit
    /\ ClientInit
    /\ accessToken \in StaticTokens
    /\ shopId \in ClientShopIds
    /\ envToken = NoString

NextApiCall ==
    \/ ApiCall
    \/ ApiCallConnected
    \/ ApiCallResponse
    \/ StorefrontListResponse
    \/ CustomerListResult
    \/ CustomerListError
    \/ BackoffElapsed

SpecApiCall == InitApiCall /\ [][NextApiCall]_vars

(* POST /api/call beside the callbacks that store customer tokens. *)
InitApiSession == InitApiCall

NextApiSession ==
    \/ StoreToken
    \/ NextApiCall

SpecApiSession == InitApiSession /\ [][NextApiSession]_vars

-----------------------------------------------------------------------------
(* C1: a stored PKCE challenge is handed to at most one callback; every    *)
(* callback that finds no challenge answers 400 (invalid state) and sends  *)
(* no token request.  A verifier value names one beginAuthorization, so a  *)
(* later callback with the same state gets a verifier only when the state  *)
(* was issued again.                                                       *)
C1_SingleUse ==
    /\ \A i \in DOMAIN cbs, j \in DOMAIN cbs :
          (i # j /\ cbs[i].verifier # 0) => cbs[i].verifier # cbs[j].verifier
    /\ \A i \in DOMAIN cbs :
          cbs[i].verifier = 0 => (cbs[i].pc = "invalid_state" /\ cbs[i].status = 400)

(* A callback consumed the challenge of a state and a later callback with  *)
(* the same state was turned away.                                         *)
C1_Witness ==
    \E i \in DOMAIN cbs, j \in DOMAIN cbs :
        /\ i < j
        /\ cbs[i].state = cbs[j].state
        /\ cbs[i].verifier # 0
        /\ cbs[i].pc \in { "exchanging", "stored" }
        /\ cbs[j].verifier = 0
        /\ cbs[j].pc = "invalid_state"

-----------------------------------------------------------------------------
(* C3: credential resolution returns the first available source in the     *)
(* order (1) the credential of the call context, (2) the non-expired store *)
(* record of the session key, (3) the most recent non-expired store record *)
(* of the shop key, (4) the statically configured credential, (5) absent.  *)
(* A record is non-expired while its expiry time lies in the future.       *)
NotExpired(row) == DateParse(row.expires_at) > now

C3_Sources(options, inst) ==
    LET bySession == { r \in customer_tokens :
                         /\ options.sessionId # NoString
                         /\ r.session_id = options.sessionId
                         /\ NotExpired(r) }
        shopRows == { r \in customer_tokens :
                        /\ shopId # NoString
                        /\ r.shop_id = shopId
                        /\ NotExpired(r) }
        byShop == { r \in shopRows : \A q \in shopRows : q.updated_at <= r.updated_at }
    IN  IF options.accessToken # NoString THEN { options.accessToken }
        ELSE IF bySession # {} THEN { r.access_token : r \in bySession }
        ELSE IF byShop # {} THEN { r.access_token : r \in byShop }
        ELSE IF inst # NoString THEN { inst }
        ELSE IF envToken # NoString THEN { envToken }
        ELSE { NoString }

C3_Precedence ==
    last.kind = "resolve" => last.token \in C3_Sources(last.options, last.instBefore)


-----------------------------------------------------------------------------
(* C2 as stated: a customer tools/call of a callTool invocation that fails *)
(* with a session-terminated signature, not being a retry, is followed by  *)
(* one reconnect and by exactly one re-issue of the call, so the           *)
(* invocation sends the call twice; a failure of the re-issued call is not *)
(* retried and the error of the first call is thrown.                      *)
C2_ReissuedExactlyOnce ==
    \A t \in TaskIds :
        ( /\ tasks[t].pc = "done"
          /\ tasks[t].firstError # NoError
          /\ _isSessionTerminatedError(tasks[t].firstError) )
        => /\ tasks[t].recoveries = 1
           /\ tasks[t].reconnected
           /\ tasks[t].calls = 2
           /\ tasks[t].outcome = "threw" => tasks[t].thrown = tasks[t].firstError

(* C2: a callTool invocation enters the recovery (invalidate the customer  *)
(* catalog, reconnect) at most once, and exactly when its first customer   *)
(* tools/call failed with a session-terminated signature; the call is      *)
(* re-issued exactly once when the reconnect succeeded and not at all when *)
(* it failed; a re-issued call is never retried, and whenever the          *)
(* invocation throws after a recovery it throws the error of the first     *)
(* call.                                                                   *)
C2_RecoversOnce ==
    \A t \in TaskIds :
        /\ tasks[t].recoveries <= 1
        /\ tasks[t].calls <= 2
        /\ tasks[t].firstError # NoError =>
              ( tasks[t].recoveries = 1
                  <=> _isSessionTerminatedError(tasks[t].firstError) )
        /\ tasks[t].recoveries = 1 =>
              tasks[t].calls = (IF tasks[t].reconnected THEN 2 ELSE 1)
        /\ ( tasks[t].pc = "done" /\ tasks[t].recoveries = 1 ) =>
              /\ tasks[t].outcome \in { "returned", "threw" }
              /\ tasks[t].outcome = "threw" =>
                    tasks[t].thrown = tasks[t].firstError

(* The re-issued call failed with another session-terminated error and the *)
(* invocation threw the first one after two calls.                         *)
C2_Witness ==
    \E t \in TaskIds :
        /\ tasks[t].pc = "done"
        /\ tasks[t].outcome = "threw"
        /\ tasks[t].calls = 2
        /\ tasks[t].recoveries = 1
        /\ _isSessionTerminatedError(tasks[t].firstError)
        /\ _isSessionTerminatedError(tasks[t].lastError)
        /\ tasks[t].lastError # tasks[t].firstError
        /\ tasks[t].thrown = tasks[t].firstError

-----------------------------------------------------------------------------
(* C4: a POST /messages whose session_id is missing, or is not the id of a *)
(* session registered when it arrives, is answered 400 (missing) or 404    *)
(* (unknown), never 202; no handler runs for it and no event of it is on   *)
(* any channel.                                                            *)
C4_UnknownSessionRejected ==
    \A i \in DOMAIN posts :
        ( posts[i].session_id = "" \/ ~posts[i].found ) =>
            /\ posts[i].pc = "done"
            /\ posts[i].status = (IF posts[i].session_id = "" THEN 400 ELSE 404)
            /\ ~posts[i].handled
            /\ \A ch \in DOMAIN channels : \A k \in DOMAIN channels[ch] :
                  channels[ch][k].post # i

(* A submission named a stream that had been closed, while another stream  *)
(* was open, and got 404.                                                  *)
C4_Witness ==
    \E i \in DOMAIN posts :
        /\ posts[i].session_id \in DOMAIN channels
        /\ ~posts[i].found
        /\ posts[i].status = 404
        /\ open # {}

-----------------------------------------------------------------------------
(* C5: a request with an id that was submitted to POST /messages under the *)
(* session id S of an open stream has, once it is processed, exactly one   *)
(* event on S's channel, that event carries the id of the request, and no  *)
(* other channel has an event of it.                                       *)
C5_ExactlyOneResponse ==
    \A i \in DOMAIN posts :
        ( /\ posts[i].found
          /\ posts[i].pc = "done"
          /\ posts[i].id \notin { "undefined", "null" }
          /\ posts[i].session_id \in open )
        => /\ Cardinality({ k \in DOMAIN channels[posts[i].session_id] :
                              channels[posts[i].session_id][k].post = i }) = 1
           /\ \A k \in DOMAIN channels[posts[i].session_id] :
                 channels[posts[i].session_id][k].post = i
                    => channels[posts[i].session_id][k].id = posts[i].id
           /\ \A ch \in DOMAIN channels \ { posts[i].session_id } :
                 \A k \in DOMAIN channels[ch] : channels[ch][k].post # i

-----------------------------------------------------------------------------
(* C6: a POST /messages that names a registered session is answered 202    *)
(* and nothing else, whatever became of it: an invalid envelope, an        *)
(* unknown method, a handler that returned or one that threw; until the    *)
(* handler has ended it has no answer.                                     *)
C6_AlwaysAccepted ==
    \A i \in DOMAIN posts :
        posts[i].found =>
            /\ posts[i].pc = "done" => posts[i].status = 202
            /\ posts[i].pc = "handling" => posts[i].status = 0
            /\ posts[i].outcome \in { "none", "invalid", "unknown_method", "ok",
                                      "threw" }

(* A handler threw: the POST got 202 and the error is on the channel of    *)
(* the session.                                                            *)
C6_Witness ==
    \E i \in DOMAIN posts :
        /\ posts[i].found
        /\ posts[i].outcome = "threw"
        /\ posts[i].status = 202
        /\ \E k \in DOMAIN channels[posts[i].session_id] :
              /\ channels[posts[i].session_id][k].post = i
              /\ channels[posts[i].session_id][k].code = ServerError

-----------------------------------------------------------------------------
(* C7: a call of a customer tool for which no credential is resolved sends *)
(* no tools/call upstream and returns a result {error: {type:              *)
(* 'auth_required', auth_url}} with a non-empty authorization URL.         *)
C7_AuthUrlWithoutUpstream ==
    ( /\ last.kind = "apiCall"
      /\ last.route = "customer"
      /\ last.token = NoString )
    => /\ ~last.sent
       /\ last.pc = "done"
       /\ last.result.type = "auth_required"
       /\ last.result.auth_url # NoString

-----------------------------------------------------------------------------
(* C8: a customer tool call that ends in an authentication-required result *)
(* is answered with the HTTP status 401 (unauthorized), not with a success *)
(* status and not with 500.                                                *)
C8_UnauthorizedStatus ==
    ( /\ last.kind = "apiCall"
      /\ last.pc = "done"
      /\ last.result.type = "auth_required" )
    => last.status = 401

-----------------------------------------------------------------------------
(* C9: callTool routes a tool name to the provider from whose most recent  *)
(* successful listing the name comes.                                      *)
C9_RoutesToLatestLister ==
    \A t \in TaskIds :
        ( tasks[t].pc # "idle" /\ tasks[t].owner # "none" )
        => tasks[t].route = tasks[t].owner

-----------------------------------------------------------------------------
(* C10: the aggregate catalog holds every tool name at most once, and the  *)
(* entry of a name is the entry of the provider that listed it last.       *)
C10_UniqueNames ==
    /\ \A i \in DOMAIN tools, j \in DOMAIN tools :
          i # j => tools[i].name # tools[j].name
    /\ \A i \in DOMAIN tools :
          tools[i].description =
             (IF lastLister[tools[i].name] = "storefront" THEN "sf" ELSE "cu")

-----------------------------------------------------------------------------
(* C11: a connectAll that runs on its own always settles, whatever each    *)
(* provider's tools/list does, and when it has settled the catalog is the  *)
(* batches of the providers whose listing succeeded, one after the other   *)
(* in the order of their answers, and nothing else: the batch of a         *)
(* provider whose listing failed is empty.                                 *)
C11_CatalogOfSucceeded ==
    Settled =>
        /\ \/ tools = storefrontTools \o customerTools
           \/ tools = customerTools \o storefrontTools
        /\ \A n \in ToolNames :
               n \in Names(tools) <=> lastLister[n] # "none"

(* The customer listing failed, the storefront listing succeeded, and the  *)
(* settled catalog is the storefront batch.                                *)
C11_Witness ==
    /\ Settled
    /\ storefrontTools # << >>
    /\ customerTools = << >>
    /\ tools = storefrontTools

-----------------------------------------------------------------------------
(* C12: the sessionKey and shopKey a callback recovers from its state are  *)
(* the ones beginAuthorization was given when it built that state, also    *)
(* when a key contains the separator '-'.  (MakeState is one-to-one on     *)
(* SessionIds x ShopIds, so the pair that built a state is known from it.) *)
C12_StateRoundTrip ==
    \A i \in DOMAIN cbs :
        cbs[i].verifier # 0 =>
            \A s \in SessionIds, h \in ShopIds :
                MakeState(s, h) = cbs[i].state =>
                    /\ cbs[i].sessionId = s
                    /\ cbs[i].shopId = h

-----------------------------------------------------------------------------
(* C13: a callback's lookup never returns a verifier whose expiry time     *)
(* (ten minutes after it was stored) lies before the time of the lookup,   *)
(* at whatever time of day and whether or not the sweep has run.           *)
C13_ElapsedNeverReturned ==
    [][ \A r \in code_verifiers :
            ( /\ Len(cbs') = Len(cbs) + 1
              /\ cbs'[Len(cbs')].verifier = r.verifier )
            => ~ (DateParse(r.expires_at) < now) ]_vars

-----------------------------------------------------------------------------
(* C14: when the token endpoint answers a callback's exchange with a token *)
(* and a lifetime expires_in, the record then stored for the callback's    *)
(* session carries that token and an expires_at that reads back as the     *)
(* time of the answer plus expires_in, for a new record and for an update. *)
C14_ExpiresAtIsExchangePlusLifetime ==
    [][ \A i \in DOMAIN cbs, e \in ExpiresInValues :
            ExchangeResponse(i, TRUE, IssuedToken(i), e, "200", NoString) =>
                \E r \in customer_tokens' :
                    /\ r.session_id = cbs[i].sessionId
                    /\ r.access_token = IssuedToken(i)
                    /\ DateParse(r.expires_at) = now + e ]_vars

(* Two callbacks of the same session have stored their tokens: the second  *)
(* one updated the record, whose expiry lies on a later day than now.      *)
C14_Witness ==
    /\ Len(cbs) = 2
    /\ cbs[1].pc = "stored"
    /\ cbs[2].pc = "stored"
    /\ cbs[1].sessionId = cbs[2].sessionId
    /\ \E r \in customer_tokens :
           /\ r.session_id = cbs[1].sessionId
           /\ r.expires_at[1] > now \div TicksPerDay

-----------------------------------------------------------------------------
(* C15: a message accepted on POST /messages that has no id member (a      *)
(* notification) never causes a message event on any stream, whatever its  *)
(* method and however its handling ends.                                   *)
C15_NotificationGetsNoResponse ==
    \A post \in DOMAIN posts :
        posts[post].id = "undefined" =>
            \A res \in DOMAIN channels :
                \A k \in DOMAIN channels[res] :
                    ~ ( /\ channels[res][k].event = "message"
                        /\ channels[res][k].post = post )

-----------------------------------------------------------------------------
-----------------------------------------------------------------------------
(* C17: a stream that has closed is, from the state after the close on,    *)
(* neither in the session map nor among the armed heartbeat timers; from   *)
(* then on a submission under its session id is rejected with 404 and no   *)
(* heartbeat is added to its channel.                                      *)
Closed == DOMAIN channels \ open

C17_ClosedStreamIsGone ==
    /\ [] ( \A res \in Closed : res \notin DOMAIN sessions /\ res \notin timers )
    /\ [][ /\ \A res \in Closed : Beats(res)' = Beats(res)
           /\ ( /\ Len(posts') = Len(posts) + 1
                /\ posts'[Len(posts')].session_id \in Closed )
              => /\ posts'[Len(posts')].status = 404
                 /\ posts'[Len(posts')].pc = "done"
                 /\ channels' = channels ]_vars

(* A stream wrote a heartbeat and closed; a submission under its id came   *)
(* afterwards and was rejected.                                            *)
C17_Witness ==
    \E res \in Closed :
        /\ Beats(res) = 1
        /\ Len(posts) = 1
        /\ posts[1].session_id = res
        /\ ~ posts[1].found
        /\ posts[1].status = 404

-----------------------------------------------------------------------------
(* C18: when POST /api/call carries the session_id of a session that has a *)
(* stored, non-expired token and the tool is a customer tool, the call is  *)
(* sent upstream with a token stored for that session.                     *)
C18_SessionTokenUsed ==
    [][ ( /\ last'.kind = "apiCall"
          /\ last'.route = "customer"
          /\ last'.pc \in { "awaiting", "done" }
          /\ last.kind = "apiCall" => last.pc \in { "connecting", "done" }
          /\ last'.session_id # NoString
          /\ getCustomerToken(customer_tokens, last'.session_id, now) # {} )
        => /\ last'.sent
           /\ \E r \in getCustomerToken(customer_tokens, last'.session_id, now) :
                 last'.token = r.access_token ]_vars

-----------------------------------------------------------------------------
(* C19: the token table never holds two records with the same session_id,  *)
(* and the record of a session carries the token of one of the exchanges   *)
(* that completed for that session: a second exchange for a session        *)
(* rewrites the session's record.                                          *)
C19_OneRecordPerSession ==
    /\ \A r \in customer_tokens, q \in customer_tokens :
          r.session_id = q.session_id => r = q
    /\ \A r \in customer_tokens :
          \E i \in DOMAIN cbs :
              /\ cbs[i].pc = "stored"
              /\ cbs[i].sessionId = r.session_id
              /\ r.access_token = IssuedToken(i)

(* Two exchanges completed for one session under different states, and the *)
(* table holds one record for it.                                          *)
C19_Witness ==
    \E i \in DOMAIN cbs, j \in DOMAIN cbs :
        /\ i # j
        /\ cbs[i].pc = "stored"
        /\ cbs[j].pc = "stored"
        /\ cbs[i].sessionId = cbs[j].sessionId
        /\ cbs[i].state # cbs[j].state
        /\ Cardinality({ r \in customer_tokens : r.session_id = cbs[i].sessionId }) = 1

-----------------------------------------------------------------------------
(* C20: when a customer tools/call that is not a retry fails with a        *)
(* session-terminated error, the recovery goes in this order: the customer *)
(* batch is emptied and the fixed wait begins; tools/list is sent again    *)
(* only when the wait is over; the call is issued again, marked as a       *)
(* retry, only when that tools/list has answered.                          *)
C20_RecoveryOrder ==
    [][ \A t \in TaskIds :
          /\ tasks'[t].recoveries = tasks[t].recoveries + 1
             => /\ customerTools' = << >>
                /\ tasks'[t].pc = "backoff"
          /\ ( /\ tasks'[t].ctx = "recover"
               /\ tasks'[t].pc \in { "list", "relist" }
               /\ tasks'[t].pc # tasks[t].pc )
             => tasks[t].pc = "backoff"
          /\ ( tasks'[t].isRetry /\ ~ tasks[t].isRetry )
             => /\ tasks[t].pc \in { "list", "relist" }
                /\ tasks'[t].reconnected ]_vars

-----------------------------------------------------------------------------
(* C21 as stated: the recovery of an invocation sends one reconnect        *)
(* listing: an invocation that is recovering never sends tools/list a      *)
(* second time.                                                            *)
C21_OneReconnectListing ==
    \A t \in TaskIds :
        tasks[t].ctx = "recover" => tasks[t].pc \notin { "backoff", "relist" }

(* The position of an invocation, counted down from its start: each        *)
(* upstream request (a listing, a call) and each wait has its own number.  *)
Rank(task) ==
    IF task.pc \in { "idle", "done" } THEN 0
    ELSE IF task.pc = "storefrontCall" THEN 1
    ELSE IF task.pc = "customerCall" THEN (IF task.isRetry THEN 2 ELSE 6)
    ELSE IF task.ctx = "recover"
    THEN (IF task.pc = "relist" THEN 3 ELSE IF task.pc = "backoff" THEN 4 ELSE 5)
    ELSE (IF task.pc = "relist" THEN 7 ELSE IF task.pc = "backoff" THEN 8 ELSE 9)

(* C21: every step of a running callTool invocation takes it to a lower    *)
(* position, whatever the provider answers, so it ends after at most six   *)
(* upstream requests: up to two listings of the first lookup, the call,    *)
(* up to two listings of the one reconnect, the one re-issued call.        *)
C21_BoundedRequests ==
    /\ [] ( \A t \in TaskIds : tasks[t].recoveries <= 1 /\ tasks[t].calls <= 2 )
    /\ [][ \A t \in TaskIds :
              ( tasks[t].pc \notin { "idle", "done" } /\ tasks'[t] # tasks[t] )
              => Rank(tasks'[t]) < Rank(tasks[t]) ]_vars

(* The provider answered the call with a session-terminated error and the  *)
(* reconnect failed as well: the invocation has ended with the first error *)
(* after one call.                                                         *)
C21_Witness ==
    \E t \in TaskIds :
        /\ tasks[t].pc = "done"
        /\ tasks[t].outcome = "threw"
        /\ tasks[t].recoveries = 1
        /\ ~ tasks[t].reconnected
        /\ tasks[t].calls = 1
        /\ _isSessionTerminatedError(tasks[t].firstError)

-----------------------------------------------------------------------------
(* C22: a storefront tools/call that ended with a session-terminated error *)
(* went through a recovery first: the invocation throws such an error only *)
(* after it has invalidated, reconnected and retried once.                 *)
C22_StorefrontRecovers ==
    \A t \in TaskIds :
        ( /\ tasks[t].pc = "done"
          /\ tasks[t].route = "storefront"
          /\ tasks[t].outcome = "threw"
          /\ _isSessionTerminatedError(tasks[t].thrown) )
        => tasks[t].recoveries = 1

-----------------------------------------------------------------------------
(* C23: a credential resolution changes nothing: the client's static       *)
(* credential, the catalog, the session map and the credential store are   *)
(* after the resolve what they were before it.                             *)
C23_ResolveOnlyReads ==
    [][ Resolve =>
          /\ accessToken' = accessToken
          /\ UNCHANGED << shopId, envToken >>
          /\ UNCHANGED << tools, storefrontTools, customerTools >>
          /\ sessions' = sessions
          /\ UNCHANGED << customer_tokens, code_verifiers, customer_account_urls >>
      ]_vars

-----------------------------------------------------------------------------
(* C24: the Authorization value sent for a resolved token t is t itself    *)
(* when t begins with "bearer " in any spelling and "Bearer " followed by  *)
(* t otherwise; it always begins with the scheme, and sending a value that *)
(* was sent before leaves it as it is.                                     *)
C24_PrefixOnce ==
    last.kind \in { "sent", "resent" } =>
        LET t == last.token
            hasScheme(str) ==
                /\ Len(str) >= 2
                /\ str[1] \in { "Bearer", "bearer", "BEARER" }
                /\ str[2] = " "
        IN  /\ hasScheme(last.authorization)
            /\ hasScheme(t) => last.authorization = t
            /\ ~ hasScheme(t) =>
                  /\ Len(last.authorization) = Len(t) + 2
                  /\ last.authorization[1] = "Bearer"
                  /\ \A i \in 1..Len(t) : last.authorization[i + 2] = t[i]
            /\ last.kind = "resent" => last.authorization = t

(* A token spelled with a lower-case scheme was sent unchanged, and sent   *)
(* unchanged again.                                                        *)
C24_Witness ==
    /\ last.kind = "resent"
    /\ last.token[1] = "bearer"
    /\ last.token[2] = " "
    /\ Len(last.token) = 3
    /\ last.authorization = last.token

-----------------------------------------------------------------------------
(* C25: invalidating the customer batch keeps every storefront entry that  *)
(* the catalog held, also one whose name a customer tool has as well, and  *)
(* leaves the storefront batch as it is.                                   *)
C25_InvalidateKeepsOthers ==
    [][ _clearCustomerTools =>
          /\ storefrontTools' = storefrontTools
          /\ \A i \in DOMAIN tools :
                ( \E k \in DOMAIN storefrontTools : storefrontTools[k] = tools[i] )
                => \E j \in DOMAIN tools' : tools'[j] = tools[i] ]_vars

-----------------------------------------------------------------------------
(* C26: a refresh replaces a provider's batch in one step: the step that   *)
(* starts a connectAll leaves every tool that was listed where callTool    *)
(* and tools/list find it, until the new listing takes the old one's       *)
(* place.                                                                  *)
C26_BatchReplacedAtomically ==
    [][ sfPending' = sfPending + 1 =>
          \A n \in ToolNames :
              /\ n \in Names(storefrontTools) => n \in Names(storefrontTools')
              /\ n \in Names(customerTools) => n \in Names(customerTools')
              /\ n \in Names(tools) => n \in Names(tools') ]_vars

-----------------------------------------------------------------------------
(* C27: once every refresh and every invalidation that was started has     *)
(* completed, the aggregate catalog is the storefront's latest batch and   *)
(* the customer provider's latest batch, each once, and nothing else.      *)
C27_LatestBatchesOnce ==
    Settled =>
        \/ tools = storefrontTools \o customerTools
        \/ tools = customerTools \o storefrontTools
        \/ \E k \in 0..Len(storefrontTools) :
              tools = SubSeq(storefrontTools, 1, k) \o customerTools
                        \o SubSeq(storefrontTools, k + 1, Len(storefrontTools))

-----------------------------------------------------------------------------
(* C28: a submission on the streaming transport is acknowledged on         *)
(* receipt: while the handler's provider call is still awaited, and so     *)
(* before the result is on the event channel, the POST already has its 202.*)
C28_AcknowledgedOnReceipt ==
    \A post \in DOMAIN posts :
        posts[post].pc = "handling" => posts[post].status = 202

-----------------------------------------------------------------------------
(* C29: handling initialize changes no server state on either transport:   *)
(* after an initialize on the synchronous transport, and after one         *)
(* submitted on the streaming transport, the session map, the tool catalog *)
(* and the credential store are what they were before.                     *)
C29_InitializeChangesNothing ==
    [][ ( \/ SyncInitialize
          \/ \E sessionId \in QuerySessionIds, body \in Bodies :
                /\ body.method = "initialize"
                /\ postMessages(sessionId, body) )
        => /\ sessions' = sessions
           /\ UNCHANGED << tools, storefrontTools, customerTools >>
           /\ UNCHANGED << customer_tokens, code_verifiers, customer_account_urls >>
      ]_vars

-----------------------------------------------------------------------------
(* C30: every session that is registered in the session map is removed     *)
(* from it at some later time, the sessions that initialize creates on the *)
(* synchronous transport included.                                         *)
C30_EverySessionRemoved ==
    \A i \in 1..MaxSessions :
        (SessionNames[i] \in DOMAIN sessions) ~> (SessionNames[i] \notin DOMAIN sessions)

-----------------------------------------------------------------------------
(* C31: only the id of a stream session is a correlation key for POST      *)
(* /messages: a submission under the id of a session that has no event     *)
(* channel is rejected with 404 like an unknown id, and is never           *)
(* acknowledged with 202.                                                  *)
C31_OnlyStreamIdsAccepted ==
    \A post \in DOMAIN posts :
        (posts[post].found /\ posts[post].res = "" /\ posts[post].pc = "done")
            => posts[post].status = 404

-----------------------------------------------------------------------------
(* C32: every response or error envelope that is emitted for a request     *)
(* which carries an id has that id, whatever the value of the id (0        *)
(* included) and on every path, the invalid-envelope path included.        *)
C32_EnvelopeCarriesCallerId ==
    \A res \in DOMAIN channels :
        \A i \in 1..Len(channels[res]) :
            LET e == channels[res][i]
            IN  (e.event = "message" /\ posts[e.post].id \notin { "undefined", "null" })
                    => e.id = posts[e.post].id

-----------------------------------------------------------------------------
(* C33: a failure inside the tools/list or tools/call handler of a         *)
(* submission whose session is registered is reported to the caller as a   *)
(* JSON-RPC error with code -32000 and the request's id; the POST is       *)
(* answered (no unhandled fault), and the session stays registered with    *)
(* its event channel as it was.                                            *)
C33_HandlerFailureReported ==
    [][ \A post \in DOMAIN posts :
          ( /\ posts[post].pc = "handling"
            /\ posts'[post].outcome = "threw"
            /\ posts[post].session_id \in DOMAIN sessions )
          => /\ posts'[post].status = 202
             /\ sessions' = sessions
             /\ open' = open
             /\ \E res \in DOMAIN channels :
                   /\ Len(channels'[res]) = Len(channels[res]) + 1
                   /\ LET e == channels'[res][Len(channels'[res])]
                      IN  /\ e.post = post
                          /\ e.kind = "error"
                          /\ e.code = -32000
                          /\ e.id = posts[post].id
      ]_vars

-----------------------------------------------------------------------------
(* C34: without the expiry sweep, beginAuthorization for a pair whose      *)
(* earlier challenge has expired or is still unconsumed succeeds: it       *)
(* returns, and a fresh challenge is stored under the pair's state.        *)
C34_BeginSucceedsWithoutSweep ==
    last.kind = "generateAuthUrl" =>
        /\ ~last.threw
        /\ \E r \in code_verifiers :
              r.state = last.state /\ r.verifier = last.verifier

-----------------------------------------------------------------------------
(* C35: when the token endpoint refuses the exchange, the error that       *)
(* completes the authorization carries the upstream status and body, the   *)
(* callback's HTTP response reports it, and the credential store is        *)
(* unchanged.                                                              *)
Contains(message, part) ==
    \E a \in 0..(Len(message) - Len(part)) :
        SubSeq(message, a + 1, a + Len(part)) = part

C35_ExchangeFailureReported ==
    [][ \A i \in DOMAIN cbs, status \in FailureStatuses, errorText \in ErrorTexts :
          ExchangeResponse(i, FALSE, NoString, 0, status, errorText) =>
             /\ Contains(cbs'[i].thrown, << status >>)
             /\ Contains(cbs'[i].thrown, errorText)
             /\ cbs'[i].status = 302
             /\ cbs'[i].location.status = "error"
             /\ cbs'[i].location.message = cbs'[i].thrown
             /\ customer_tokens' = customer_tokens
      ]_vars

C35_Witness ==
    \E i \in DOMAIN cbs :
        /\ cbs[i].pc = "exchange_failed"
        /\ cbs[i].location = ErrorRedirect(TokenExchangeFailed("500", << "invalid_grant" >>))
        /\ customer_tokens # {}

-----------------------------------------------------------------------------
(* C36: the first event of a stream is the discovery event with the        *)
(* stream's session id; the id of a stream that opens was never the id of  *)
(* a session before; and the id is registered when the event is written,   *)
(* so a POST under the id of an open stream is never rejected as unknown.  *)
C36_DiscoveredIdIsRegistered ==
    /\ [](/\ \A res \in DOMAIN channels :
               /\ Len(channels[res]) >= 1
               /\ channels[res][1].event = "endpoint"
               /\ channels[res][1].id = res
          /\ \A res \in open :
               /\ res \in DOMAIN sessions
               /\ sessions[res].res = res)
    /\ [][ /\ \A res \in open' \ open :
                res \notin DOMAIN sessions /\ res \notin DOMAIN channels
           /\ ( /\ Len(posts') = Len(posts) + 1
                /\ posts'[Len(posts')].session_id \in open )
                => /\ posts'[Len(posts')].found
                   /\ posts'[Len(posts')].status \notin { 400, 404 }
         ]_vars

C36_Witness ==
    /\ Cardinality(DOMAIN sessions) = 2
    /\ \E post \in DOMAIN posts :
          /\ posts[post].session_id \in open
          /\ posts[post].status = 202
          /\ sessions[posts[post].session_id].res = posts[post].session_id

-----------------------------------------------------------------------------
(* C37: after storeCustomerToken(sessionKey, shopKey, token, ...) the      *)
(* record of sessionKey has that shopKey and that token, also when the     *)
(* session had a record under another shop.                                *)
C37_StoredUnderGivenShop ==
    [][ \A s \in ResolveSessionIds, h \in ShopIds, e \in ExpiresInValues :
          ( /\ nextId' = nextId + 1
            /\ customer_tokens' =
                  storeCustomerToken(customer_tokens, s, h, IssuedToken(nextId),
                                     now + e, now) )
          => \E r \in customer_tokens' :
                /\ r.session_id = s
                /\ r.shop_id = h
                /\ r.access_token = IssuedToken(nextId)
      ]_vars

-----------------------------------------------------------------------------
(* C38: the credential of a tools/call under stream session S does not     *)
(* depend on the credential of another stream session: it is never the     *)
(* credential another session presented, the shared client never holds a   *)
(* session's credential, and the options of the call are the same whatever *)
(* credentials the other sessions have.                                    *)
C38_NoForeignCredential ==
    /\ \A i \in 1..Len(SessionNames) :
          accessToken # SessionCredential(SessionNames[i])
    /\ last.kind = "toolsCall" =>
          \A i \in 1..Len(SessionNames) :
              SessionNames[i] # last.session_id =>
                  last.credential # SessionCredential(SessionNames[i])
    /\ \A S \in DOMAIN sessions, headerToken \in HeaderTokens,
          paramToken \in ParamTokens :
          \A other \in DOMAIN sessions \ { S } :
          \A token \in { NoString, SessionCredential(other) } :
              callOptions([ sessions EXCEPT ![other].accessToken = token ],
                          S, headerToken, paramToken)
                = callOptions(sessions, S, headerToken, paramToken)

C38_Witness ==
    /\ last.kind = "toolsCall"
    /\ last.credential = SessionCredential(last.session_id)
    /\ \E other \in DOMAIN sessions \ { last.session_id } :
          sessions[other].accessToken = SessionCredential(other)

-----------------------------------------------------------------------------
(* C39: no request to the storefront endpoint, tools/list or tools/call,   *)
(* carries an Authorization header, whatever credentials exist.            *)
C39_StorefrontGetsNoCredential ==
    last.kind = "storefront" => last.authorization = NoString

-----------------------------------------------------------------------------
(* C40: whenever beginAuthorization returns a URL and a state, the         *)
(* verifier stored under that state is the one whose S256 challenge is in  *)
(* the URL, and no state ever has two challenge records, also after        *)
(* repeated calls for one pair before its callback.                        *)
C40_StoredVerifierMatchesUrl ==
    /\ \A r, q \in code_verifiers : r.state = q.state => r = q
    /\ (last.kind = "generateAuthUrl" /\ ~last.threw) =>
          \E r \in code_verifiers :
              /\ r.state = last.state
              /\ generateCodeChallenge(r.verifier) = last.code_challenge

C40_Witness ==
    /\ last.kind = "generateAuthUrl"
    /\ ~last.threw
    /\ \E i \in DOMAIN cbs :
          /\ cbs[i].state = last.state
          /\ cbs[i].verifier # 0
          /\ cbs[i].verifier # last.verifier

=============================================================================
